---- MODULE Spec2Model ----
(***************************************************************************)
(* The driver loop of khan.analysis.processing.get_aurora_brightnesses:    *)
(* one iteration per wavelength group, six collaborator calls inside one   *)
(* try block, one `except ValueError` handler that prints and continues.   *)
(*                                                                         *)
(* Wavelengths are integers in units of 0.01 nm; a wavelength key is an    *)
(* integer in units of 0.1 nm (the "630.0" of the docstring is 6300).      *)
(* An instance of OrderData/Background/AuroraBrightness is named by the    *)
(* iteration that constructed it; 0 is an unbound local variable.          *)
(***************************************************************************)
EXTENDS Integers, Sequences, FiniteSets, TLC

NGroups == 3

NFrames == 1

MaxExcludeKeys == 1

\* The candidate wavelength groups a list is drawn from.  The second and
\* third have means 630.03 and 630.04, which share the key 630.0; the fourth
\* has mean 630.39, key 630.4.
Catalogue == << <<55773>>, <<63003>>, <<63001, 63007>>, <<63038, 63040>> >>

Frames == 0 .. (NFrames - 1)

VARIABLES
    wavelengths,        \* aurora_line_wavelengths(...): the list of groups
    exclude,            \* the exclude mapping: key -> set of frame indices
    i,                  \* the loop variable, 1-based
    pc,                 \* the statement of the try body about to run, or "done"/"aborted"
    order_data,         \* local variable order_data
    background,         \* local variable background
    aurora_brightness,  \* local variable aurora_brightness
    calls,              \* per group, the collaborator calls made, in order
    printed,            \* what print() wrote, in order
    files,              \* what lies beneath save_path: location -> the group whose output it holds (0: nothing)
    written,            \* per group, the kinds of output it wrote in this run
    clobbered,          \* <<kind, victim, writer>>: writer replaced the output of another group
    raised              \* the exception that left get_aurora_brightnesses, or "none"

vars == << wavelengths, exclude, i, pc, order_data, background,
           aurora_brightness, calls, printed, files, written, clobbered, raised >>

---------------------------------------------------------------------------
(* Pure helpers *)

RECURSIVE SumSeq(_)
SumSeq(s) == IF s = << >> THEN 0 ELSE Head(s) + SumSeq(Tail(s))

\* f'{wavelengths[i].mean():.1f}' with a precision of 0 decimals: a key in
\* whole nanometres (still expressed in tenths).
WavelengthKeyWholeNm(w) ==
    LET S == SumSeq(w)
        d == 100 * Len(w)
        q == S \div d
        r == S % d
    IN  10 * (IF 2 * r < d THEN q
              ELSE IF 2 * r > d THEN q + 1
              ELSE IF q % 2 = 0 THEN q ELSE q + 1)

\* f'{wavelengths[i].mean():.1f}': the mean of the group, rounded to one
\* decimal (to the nearest tenth, an exact tie to the even tenth).
WavelengthKey(w) ==
    LET S == SumSeq(w)
        d == 10 * Len(w)
        q == S \div d
        r == S % d
    IN  IF 2 * r < d THEN q
        ELSE IF 2 * r > d THEN q + 1
        ELSE IF q % 2 = 0 THEN q ELSE q + 1

Keys == { WavelengthKey(Catalogue[c]) : c \in DOMAIN Catalogue }

\* The ordered selections of n groups from the catalogue.
RECURSIVE Selections(_, _)
Selections(from, n) ==
    IF n = 0 THEN { << >> }
    ELSE IF from > Len(Catalogue) THEN { }
    ELSE { << Catalogue[from] >> \o s : s \in Selections(from + 1, n - 1) }
         \cup Selections(from + 1, n)

Groups == 1 .. Len(wavelengths)

---------------------------------------------------------------------------
(* The try body, lines 73-94 *)

\* The names of the two quality-assurance renderers, as stage names.
BackgroundGraphic == "make_background_subtraction_quality_assurance_graphic"

SpectrumGraphic == "make_1d_spectrum_quality_assurance_graphic"

Stages == << "OrderData", "Background", "AuroraBrightness",
             BackgroundGraphic, "save_results", SpectrumGraphic >>

OutputKinds == { "background_qa", "results", "spectrum_qa" }

\* The statement order with the 1-D spectrum graphic drawn before the results
\* are saved.
NextStageSpectrumFirst(s) ==
    CASE s = "OrderData"        -> "Background"
      [] s = "Background"       -> "AuroraBrightness"
      [] s = "AuroraBrightness" -> BackgroundGraphic
      [] s = BackgroundGraphic  -> SpectrumGraphic
      [] s = SpectrumGraphic    -> "save_results"
      [] s = "save_results"     -> "end"

\* The statement order with the background graphic drawn right after
\* OrderData, before Background is constructed.
NextStageQABeforeBackground(s) ==
    CASE s = "OrderData"        -> BackgroundGraphic
      [] s = BackgroundGraphic  -> "Background"
      [] s = "Background"       -> "AuroraBrightness"
      [] s = "AuroraBrightness" -> "save_results"
      [] s = "save_results"     -> SpectrumGraphic
      [] s = SpectrumGraphic    -> "end"

\* The statement that follows statement s in the try body ("end": the body
\* is complete).
NextStage(s) ==
    CASE s = "OrderData"        -> "Background"
      [] s = "Background"       -> "AuroraBrightness"
      [] s = "AuroraBrightness" -> BackgroundGraphic
      [] s = BackgroundGraphic  -> "save_results"
      [] s = "save_results"     -> SpectrumGraphic
      [] s = SpectrumGraphic    -> "end"

\* A handler that catches every exception.
CaughtAny(exc) == TRUE

\* except ValueError
Caught(exc) == exc = "ValueError"

\* A loop that steps over the group after k.
LoopNextSkipsOne(k) ==
    IF k + 2 <= Len(wavelengths)
    THEN [i |-> k + 2, pc |-> "OrderData"]
    ELSE [i |-> k, pc |-> "done"]

\* for i in range(len(wavelengths)): the next iteration, or the end of the
\* function once the range is exhausted (i keeps its last value).
LoopNext(k) ==
    IF k + 1 <= Len(wavelengths)
    THEN [i |-> k + 1, pc |-> "OrderData"]
    ELSE [i |-> k, pc |-> "done"]

\* A handler that ends with `break`.
AfterExceptBreak(k, s) == [i |-> k, pc |-> "done"]

\* A handler that ends with `pass` around the failing statement alone: the
\* body goes on with the next statement.
AfterExceptFallThrough(k, s) ==
    IF NextStage(s) = "end" THEN LoopNext(k) ELSE [i |-> k, pc |-> NextStage(s)]

\* The handler's `continue`, whatever statement s raised.
AfterExcept(k, s) == LoopNext(k)

\* Where control goes when statement s of iteration k ends with outcome o.
Control(k, s, o) ==
    IF o = "ok"
    THEN IF NextStage(s) = "end" THEN LoopNext(k) ELSE [i |-> k, pc |-> NextStage(s)]
    ELSE IF Caught(o) THEN AfterExcept(k, s)
    ELSE [i |-> k, pc |-> "aborted"]

---------------------------------------------------------------------------
(* The collaborators, which live in khan.analysis.brightness_retrieval and  *)
(* khan.analysis.quality_assurance                                          *)

\* The frames excluded for a group: the entry of the exclude mapping under the
\* group's one-decimal key (no entry: none).
Excluded(w) == exclude[WavelengthKey(w)]

AllExcluded(w) == Frames \subseteq Excluded(w)

\* What a call of stage s for group w can do: return, raise ValueError (for
\* OrderData: the wavelength was not found), raise another exception (here
\* OSError); AuroraBrightness raises DegenerateAggregate, which is no
\* ValueError, when every frame is excluded.
Outcomes(s, w) ==
    IF s = "AuroraBrightness" /\ AllExcluded(w)
    THEN { "DegenerateAggregate" }
    ELSE { "ok", "ValueError", "OSError" }

\* Where a stage writes its output of the given kind for group w.
Location(kind, w) == << kind, WavelengthKey(w) >>

Locations == OutputKinds \X Keys

---------------------------------------------------------------------------
(* One statement of the try body: the call, then where control goes *)

\* The record of one collaborator call: the stage, the indices it was given
\* into wavelengths and line_strengths, the instances it was given (0: not an
\* argument of this stage), and how it ended.
CallRecord(s, wl, od, bg, ab, o) ==
    [stage |-> s, wl |-> wl, ls |-> wl, od |-> od, bg |-> bg, ab |-> ab, outcome |-> o]

\* The part every statement shares: the call is made, control moves, and the
\* handler prints when it catches.
Transfer(s, rec) ==
    LET o == rec.outcome
        c == Control(i, s, o)
    IN  /\ i' = c.i
        /\ pc' = c.pc
        /\ calls' = [calls EXCEPT ![i] = Append(@, rec)]
        /\ printed' = IF o # "ok" /\ Caught(o)
                      THEN Append(printed, [group |-> i,
                                            key |-> WavelengthKey(wavelengths[i])])
                      ELSE printed
        /\ raised' = IF o # "ok" /\ ~Caught(o) THEN o ELSE raised

\* A stage that returned has written its output of the given kind; one that
\* raised has written nothing.
WriteOutput(kind, o) ==
    LET loc == Location(kind, wavelengths[i])
    IN  IF o = "ok"
        THEN /\ files' = [files EXCEPT ![loc] = i]
             /\ written' = [written EXCEPT ![i] = @ \cup {kind}]
             /\ clobbered' = IF files[loc] \notin {0, i}
                             THEN clobbered \cup { << kind, files[loc], i >> }
                             ELSE clobbered
        ELSE UNCHANGED << files, written, clobbered >>

\* order_data = OrderData(reduced_data_path=..., wavelengths=wavelengths[i],
\*                        emission_line_strengths=line_strengths[i], ...)
OrderData ==
    /\ pc = "OrderData"
    /\ \E o \in Outcomes("OrderData", wavelengths[i]) :
          /\ Transfer("OrderData", CallRecord("OrderData", i, 0, 0, 0, o))
          /\ order_data' = IF o = "ok" THEN i ELSE order_data
    /\ UNCHANGED << wavelengths, exclude, background, aurora_brightness,
                    files, written, clobbered >>

\* background = Background(order_data=order_data, y_offset=y_offset)
Background ==
    /\ pc = "Background"
    /\ \E o \in Outcomes("Background", wavelengths[i]) :
          /\ Transfer("Background", CallRecord("Background", 0, order_data, 0, 0, o))
          /\ background' = IF o = "ok" THEN i ELSE background
    /\ UNCHANGED << wavelengths, exclude, order_data, aurora_brightness,
                    files, written, clobbered >>

\* aurora_brightness = AuroraBrightness(order_data=order_data,
\*                                      background=background, save_path=save_path)
AuroraBrightness ==
    /\ pc = "AuroraBrightness"
    /\ \E o \in Outcomes("AuroraBrightness", wavelengths[i]) :
          /\ Transfer("AuroraBrightness",
                      CallRecord("AuroraBrightness", 0, order_data, background, 0, o))
          /\ aurora_brightness' = IF o = "ok" THEN i ELSE aurora_brightness
    /\ UNCHANGED << wavelengths, exclude, order_data, background,
                    files, written, clobbered >>

\* make_background_subtraction_quality_assurance_graphic(order_data=order_data,
\*     background=background, save_path=save_path, y_offset=y_offset)
make_background_subtraction_quality_assurance_graphic ==
    /\ pc = BackgroundGraphic
    /\ \E o \in Outcomes(BackgroundGraphic, wavelengths[i]) :
          /\ Transfer(BackgroundGraphic,
                      CallRecord(BackgroundGraphic, 0, order_data, background, 0, o))
          /\ WriteOutput("background_qa", o)
    /\ UNCHANGED << wavelengths, exclude, order_data, background, aurora_brightness >>

\* aurora_brightness.save_results()
save_results ==
    /\ pc = "save_results"
    /\ \E o \in Outcomes("save_results", wavelengths[i]) :
          /\ Transfer("save_results",
                      CallRecord("save_results", 0, 0, 0, aurora_brightness, o))
          /\ WriteOutput("results", o)
    /\ UNCHANGED << wavelengths, exclude, order_data, background, aurora_brightness >>

\* make_1d_spectrum_quality_assurance_graphic(save_path=save_path,
\*                                            order_data=order_data)
make_1d_spectrum_quality_assurance_graphic ==
    /\ pc = SpectrumGraphic
    /\ \E o \in Outcomes(SpectrumGraphic, wavelengths[i]) :
          /\ Transfer(SpectrumGraphic, CallRecord(SpectrumGraphic, 0, order_data, 0, 0, o))
          /\ WriteOutput("spectrum_qa", o)
    /\ UNCHANGED << wavelengths, exclude, order_data, background, aurora_brightness >>

---------------------------------------------------------------------------

\* What an earlier, complete run over the same list left beneath save_path:
\* at each location the output of the last group that wrote there.
FilesOfEarlierRun ==
    [l \in Locations |->
        LET W == { g \in Groups : Location(l[1], wavelengths[g]) = l }
        IN  IF W = { } THEN 0 ELSE CHOOSE g \in W : \A h \in W : h <= g]

Init ==
    /\ wavelengths \in Selections(1, NGroups)
    /\ exclude \in { e \in [Keys -> SUBSET Frames] :
                        Cardinality({ k \in Keys : e[k] # { } }) <= MaxExcludeKeys }
    /\ i = 1
    /\ pc = "OrderData"
    /\ order_data = 0
    /\ background = 0
    /\ aurora_brightness = 0
    /\ calls = [g \in 1 .. NGroups |-> << >>]
    /\ printed = << >>
    /\ files \in { [l \in Locations |-> 0], FilesOfEarlierRun }
    /\ written = [g \in 1 .. NGroups |-> { }]
    /\ clobbered = { }
    /\ raised = "none"

Next ==
    \/ OrderData
    \/ Background
    \/ AuroraBrightness
    \/ make_background_subtraction_quality_assurance_graphic
    \/ save_results
    \/ make_1d_spectrum_quality_assurance_graphic

Spec == Init /\ [][Next]_vars

\* Every collaborator call returns or raises, so the statement at pc always
\* completes.
FairSpec == Init /\ [][Next]_vars /\ WF_vars(Next)

---------------------------------------------------------------------------
(* Vocabulary of the properties *)

StageCalls(g, s) == { k \in DOMAIN calls[g] : calls[g][k].stage = s }

Called(g, s) == StageCalls(g, s) # { }

Returned(g, s) == \E k \in StageCalls(g, s) : calls[g][k].outcome = "ok"

RaisedIn(g, s, e) == \E k \in StageCalls(g, s) : calls[g][k].outcome = e

\* The handler printed the "not found! Skipping..." notice for group g.
Reported(g) == \E k \in DOMAIN printed : printed[k].group = g

\* The loop has left group g behind, or was never going to reach it.
Finished(g) == i > g \/ pc \in { "done", "aborted" }

\* Group g's first statement has run.
Attempted(g) ==
    /\ calls[g] # << >>
    /\ calls[g][1].stage = "OrderData"
    /\ calls[g][1].wl = g
    /\ calls[g][1].ls = g

Complete(g) == \A k \in DOMAIN Stages : Returned(g, Stages[k])

NSaved(g) == Cardinality({ k \in StageCalls(g, "save_results") : calls[g][k].outcome = "ok" })

Abs(x) == IF x < 0 THEN -x ELSE x

\* The mean of the group to one decimal: the tenth nearest to the mean.
OneDecimal(w) ==
    LET S == SumSeq(w)
        d == 10 * Len(w)
        q == S \div d
    IN  CHOOSE t \in { q, q + 1 } :
            \A u \in { q, q + 1 } :
                \/ Abs(S - d * t) < Abs(S - d * u)
                \/ Abs(S - d * t) = Abs(S - d * u) /\ (t = u \/ t % 2 = 0)

DistinctOneDecimalKeys ==
    \A g, h \in Groups :
        g # h => OneDecimal(wavelengths[g]) # OneDecimal(wavelengths[h])

\* What each stage needs to have been constructed before it is invoked.
Deps(s) ==
    CASE s = "OrderData"        -> { }
      [] s = "Background"       -> { "OrderData" }
      [] s = "AuroraBrightness" -> { "OrderData", "Background" }
      [] s = BackgroundGraphic  -> { "OrderData", "Background" }
      [] s = "save_results"     -> { "AuroraBrightness" }
      [] s = SpectrumGraphic    -> { "OrderData" }

---------------------------------------------------------------------------
(* The properties *)

\* C1: when OrderData raises ValueError (wavelength not found) for group g, no
\* later stage runs for g and g writes nothing, g is reported as not found, the
\* run is not aborted by it, and every later group the loop has reached or
\* passed was attempted with its own wavelengths and line strengths.
C1_LineNotFoundSkipsOnlyThatGroup ==
    \A g \in Groups :
        RaisedIn(g, "OrderData", "ValueError") =>
            /\ Len(calls[g]) = 1
            /\ written[g] = { }
            /\ Reported(g)
            /\ pc # "aborted" \/ i # g
            /\ g < Len(wavelengths) => i > g
            /\ g = Len(wavelengths) => pc = "done"
            /\ \A j \in Groups :
                  (j > g /\ (pc = "done" \/ j < i \/ (j = i /\ pc # "OrderData")))
                      => Attempted(j)

C1_Witness ==
    \E g \in Groups :
        /\ g < Len(wavelengths)
        /\ RaisedIn(g, "OrderData", "ValueError")
        /\ pc = "done"
        /\ \A j \in Groups : j > g => Complete(j) /\ written[j] = OutputKinds

\* C2: a failure other than the ValueError of OrderData, raised by any stage
\* of a group, leaves get_aurora_brightnesses and aborts the run at that group,
\* which is not reported as not found.
C2_OnlyLineNotFoundIsSkipped ==
    \A g \in Groups :
        \A k \in DOMAIN calls[g] :
            (/\ calls[g][k].outcome # "ok"
             /\ ~(calls[g][k].stage = "OrderData" /\ calls[g][k].outcome = "ValueError"))
                => /\ pc = "aborted"
                   /\ i = g
                   /\ raised = calls[g][k].outcome
                   /\ ~Reported(g)

\* C3: after a run that returns normally, every group whose OrderData was
\* constructed has exactly one results record saved, and no group more than one.
C3_OneRecordPerPresentGroup ==
    pc = "done" =>
        \A g \in Groups :
            /\ Returned(g, "OrderData") => NSaved(g) = 1
            /\ NSaved(g) <= 1

C6_StagesFollowDependencies ==
    \A g \in Groups :
        \A k \in DOMAIN calls[g] :
            /\ \A d \in Deps(calls[g][k].stage) :
                  \E j \in 1 .. (k - 1) :
                      calls[g][j].stage = d /\ calls[g][j].outcome = "ok"
            /\ calls[g][k].stage = "save_results" => calls[g][k].ab = g

C6_Witness ==
    \E g \in Groups : Len(calls[g]) = Len(Stages) /\ Complete(g)

\* The safety half of C7: no group is attempted twice, a group is attempted
\* only once every group before it has completed all its stages or been
\* skipped, no group beyond the loop variable has been touched, and a run that
\* returns normally has attempted every group exactly once.
C7_OneAtATime ==
    /\ \A g \in Groups : Cardinality(StageCalls(g, "OrderData")) <= 1
    /\ \A g \in Groups :
          calls[g] # << >> =>
              /\ g <= i
              /\ Attempted(g)
              /\ \A h \in 1 .. (g - 1) : Complete(h) \/ Reported(h)
    /\ pc = "done" =>
          \A g \in Groups :
              Attempted(g) /\ Cardinality(StageCalls(g, "OrderData")) = 1

\* C7: the groups are processed one at a time in list order, each attempted
\* exactly once, and, every collaborator call returning or raising, the run
\* ends: it returns after the last group or is aborted by a propagating failure.
C7_SequentialAndTerminates ==
    /\ [] C7_OneAtATime
    /\ <> (pc \in { "done", "aborted" })

C7_Witness ==
    /\ pc = "done"
    /\ i = Len(wavelengths)
    /\ \E g \in Groups : Reported(g)
    /\ \E g \in Groups : Complete(g)

\* C8 as stated: for a group whose OrderData, Background and AuroraBrightness
\* were constructed, the results record is saved whatever the two graphics
\* did: save_results is invoked, and it alone decides.
C8_SaveIndependentOfGraphics ==
    \A g \in Groups :
        (Finished(g) /\ Returned(g, "AuroraBrightness")) =>
            /\ Called(g, "save_results")
            /\ "results" \in written[g] <=> Returned(g, "save_results")

\* C8 as amended: for such a group the saving of the results record does not
\* depend on the 1-D spectrum graphic, which is drawn after save_results; it
\* does depend on the background-subtraction graphic, drawn before it:
\* save_results is invoked exactly when that graphic returned.
C8_SaveDependsOnBackgroundGraphicOnly ==
    \A g \in Groups :
        (Finished(g) /\ Returned(g, "AuroraBrightness")) =>
            /\ Called(g, "save_results") <=> Returned(g, BackgroundGraphic)
            /\ "results" \in written[g] <=> Returned(g, "save_results")

C8_Witness ==
    \E g, h \in Groups :
        /\ Finished(g) /\ Finished(h)
        /\ Returned(g, "save_results") /\ "results" \in written[g]
        /\ RaisedIn(g, SpectrumGraphic, "ValueError")
        /\ Returned(h, "AuroraBrightness")
        /\ RaisedIn(h, BackgroundGraphic, "ValueError")
        /\ "results" \notin written[h]

\* C9: every call of iteration g receives what iteration g made: OrderData the
\* g-th wavelengths and line strengths, and every consumer the OrderData,
\* Background and AuroraBrightness instances constructed in iteration g.
C9_NoInstanceFromAnotherIteration ==
    \A g \in Groups :
        \A k \in DOMAIN calls[g] :
            LET c == calls[g][k]
            IN  /\ c.stage = "OrderData" => c.wl = g /\ c.ls = g
                /\ c.stage \in { "Background", "AuroraBrightness",
                                 BackgroundGraphic, SpectrumGraphic } => c.od = g
                /\ c.stage \in { "AuroraBrightness", BackgroundGraphic } => c.bg = g
                /\ c.stage = "save_results" => c.ab = g

\* A group is skipped while the locals still hold the instances of the group
\* before it, and the group after it runs all its stages.
C9_Witness ==
    \E g \in Groups :
        /\ g > 2
        /\ Complete(g - 2)
        /\ Reported(g - 1)
        /\ Len(calls[g]) = Len(Stages)
        /\ aurora_brightness = g

\* C10: at the end of a run that returns, each group either has all three
\* outputs written or was reported as not found and has written none.
C10_AllOrNothing ==
    pc = "done" =>
        \A g \in Groups :
            \/ written[g] = OutputKinds
            \/ Reported(g) /\ written[g] = { }

====
